---------------------------- MODULE Spec2Model ----------------------------
(***************************************************************************)
(* Model of the helper functions of Template-JupyterLab:                   *)
(*   src/data/helpers.py           download_extract_zip                    *)
(*   src/features/helpers.py       drop_impossible_values                  *)
(*   src/visualization/helpers.py  plot_classifier_results                 *)
(*                                                                         *)
(* The filesystem under target_path is the only state that outlives a      *)
(* call.  Every call is one action; what the call did (the library calls   *)
(* with an effect, in order) is recorded in trace, how it ended in         *)
(* outcome, and what it returned in value.                                 *)
(***************************************************************************)
EXTENDS Integers, Sequences, FiniteSets

VARIABLES
    fs,         \* the filesystem under target_path
    pre,        \* the filesystem when the last call started
    call,       \* the last call: the operation and its inputs
    outcome,    \* how the last call ended: returned, or the exception raised
    value,      \* what the last call returned
    trace,      \* the effectful library calls the last call made, in order
    repeat      \* the last call repeated a successful download (see below)

vars == <<fs, pre, call, outcome, value, trace, repeat>>

None == "None"

(***************************************************************************)
(* Bounds of the model.                                                    *)
(***************************************************************************)
MaxNames == 2       \* longest files_names tuple
MaxRows == 2        \* most rows of a dataframe

(***************************************************************************)
(* Sequences over S of length at most n, and those without repetition.     *)
(***************************************************************************)
SeqUpTo(S, n) == UNION {[1..k -> S] : k \in 0..n}

Range(s) == {s[i] : i \in DOMAIN s}

DistinctSeqs(S) == {s \in SeqUpTo(S, Cardinality(S)) : Cardinality(Range(s)) = Len(s)}

(***************************************************************************)
(* The filesystem: the parent of target_path, target_path itself (absent,  *)
(* a directory, or a regular file in the way), and the files directly      *)
(* under target_path with their contents.                                  *)
(***************************************************************************)
zip_file_url == "https://host/archive.zip"

target_path == "data/raw"

FileNames == {"a.txt", "b.txt"}

Contents == {"old", "new"}

FileMaps == UNION {[S -> Contents] : S \in SUBSET FileNames}

EmptyFiles == [n \in {} |-> "old"]

FileSystems ==
    {[parent |-> FALSE, target |-> "absent", files |-> EmptyFiles],
     [parent |-> TRUE, target |-> "absent", files |-> EmptyFiles],
     [parent |-> TRUE, target |-> "file", files |-> EmptyFiles]}
    \cup {[parent |-> TRUE, target |-> "dir", files |-> m] : m \in FileMaps}

\* os.path.exists(target_path)
path_exists(f) == f.target # "absent"

\* variant: the path is not joined to target_path, so the file is looked up in
\* the working directory, where it is not
file_exists_unjoined(f, file) == FALSE

\* os.path.exists(os.path.join(target_path, file))
file_exists(f, file) == f.target = "dir" /\ file \in DOMAIN f.files

\* os.makedirs(target_path): the directory and its missing parents
makedirs(f) == [f EXCEPT !.parent = TRUE, !.target = "dir"]

(***************************************************************************)
(* What requests.get answers: nothing (it raises), or a status and a body. *)
(* A body is either bytes that are no zip archive, or an archive: its      *)
(* members with their contents, and the members whose stored CRC is wrong. *)
(***************************************************************************)
NotZip == [kind |-> "notzip", members |-> EmptyFiles, corrupt |-> {}]

Archives ==
    {[kind |-> "zip", members |-> m, corrupt |-> c] :
        m \in FileMaps, c \in SUBSET FileNames}

Bodies == {NotZip} \cup {z \in Archives : z.corrupt \subseteq DOMAIN z.members}

NoResponse == [status |-> 0, body |-> NotZip]

Responses ==
    {NoResponse}
    \cup {[status |-> s, body |-> NotZip] : s \in {404, 500}}
    \cup {[status |-> 200, body |-> b] : b \in Bodies}

\* ZipFile.testzip(): the name of a member failing its check, or None
testzip(z) == IF z.corrupt = {} THEN None ELSE CHOOSE n \in z.corrupt : TRUE

\* ZipFile.extractall(target_path): every member written under target_path,
\* a file already there is replaced
extractall(f, z) ==
    [f EXCEPT !.files =
        [n \in DOMAIN f.files \cup DOMAIN z.members |->
            IF n \in DOMAIN z.members THEN z.members[n] ELSE f.files[n]]]

\* variant: the test of the loop is inverted (a file that exists asks for the
\* download)
must_download_inverted(f, files_names, i) ==
    \E k \in i..Len(files_names) : file_exists(f, files_names[k])

\* the loop over files_names: stops at the first file that does not exist
RECURSIVE must_download(_, _, _)
must_download(f, files_names, i) ==
    IF i > Len(files_names) THEN FALSE
    ELSE IF ~file_exists(f, files_names[i]) THEN TRUE
    ELSE must_download(f, files_names, i + 1)

\* how a call ends
Returned == [kind |-> "return", msg |-> None, url |-> None]

Raised(kind, msg, url) == [kind |-> kind, msg |-> msg, url |-> url]

NotCalled == [kind |-> "none", msg |-> None, url |-> None]

Pending == [kind |-> "pending", msg |-> None, url |-> None]

Result(o, t, f) == [outcome |-> o, trace |-> t, fs |-> f]

\* the part of download_extract_zip after the archive has passed its check
extract_step(f, z) ==
    LET f1 == IF ~path_exists(f) THEN makedirs(f) ELSE f
        t1 == IF ~path_exists(f) THEN <<"requests.get", "makedirs">>
              ELSE <<"requests.get">>
    IN  IF f1.target = "dir"
        THEN Result(Returned, Append(t1, "extractall"), extractall(f1, z))
        ELSE IF z.members = EmptyFiles
        THEN Result(Returned, Append(t1, "extractall"), f1)
        ELSE Result(Raised("NotADirectoryError", None, None), Append(t1, "extractall"), f1)

\* variant: only server errors (5xx) count as a failed download
check_step_5xx(f, resp) ==
    IF resp.status >= 500
    THEN Result(Raised("ValueError", "Failed to download", zip_file_url),
                <<"requests.get">>, f)
    ELSE IF resp.body.kind = "notzip"
    THEN Result(Raised("BadZipFile", "File is not a zip file", None),
                <<"requests.get">>, f)
    ELSE IF testzip(resp.body) # None
    THEN Result(Raised("ValueError", "Failed to extract", zip_file_url),
                <<"requests.get">>, f)
    ELSE extract_step(f, resp.body)

\* variant: the result of testzip is not looked at
check_step_untested(f, resp) ==
    IF resp.status # 200
    THEN Result(Raised("ValueError", "Failed to download", zip_file_url),
                <<"requests.get">>, f)
    ELSE IF resp.body.kind = "notzip"
    THEN Result(Raised("BadZipFile", "File is not a zip file", None),
                <<"requests.get">>, f)
    ELSE extract_step(f, resp.body)

\* the part of download_extract_zip after requests.get has answered
check_step(f, resp) ==
    IF resp.status # 200
    THEN Result(Raised("ValueError", "Failed to download", zip_file_url),
                <<"requests.get">>, f)
    ELSE IF resp.body.kind = "notzip"
    THEN Result(Raised("BadZipFile", "File is not a zip file", None),
                <<"requests.get">>, f)
    ELSE IF testzip(resp.body) # None
    THEN Result(Raised("ValueError", "Failed to extract", zip_file_url),
                <<"requests.get">>, f)
    ELSE extract_step(f, resp.body)

run_download_extract_zip(f, files_names, resp) ==
    IF ~must_download(f, files_names, 1)
    THEN Result(Returned, <<>>, f)
    ELSE IF resp = NoResponse
    THEN Result(Raised("ConnectionError", None, None), <<"requests.get">>, f)
    ELSE check_step(f, resp)

FetchCalls ==
    {[op |-> "download_extract_zip", files_names |-> ns, resp |-> r] :
        ns \in SeqUpTo(FileNames, MaxNames), r \in Responses}

NoCall == [op |-> "none"]

\* the call before c downloaded and returned, its archive held every name of
\* files_names, and c has the same arguments
Repeats(c) ==
    /\ call.op = "download_extract_zip"
    /\ outcome = Returned
    /\ trace # <<>>
    /\ Range(call.files_names) \subseteq DOMAIN call.resp.body.members
    /\ c.files_names = call.files_names

download_extract_zip ==
    \E c \in FetchCalls :
        LET r == run_download_extract_zip(fs, c.files_names, c.resp)
        IN  /\ call' = c
            /\ pre' = fs
            /\ fs' = r.fs
            /\ outcome' = r.outcome
            /\ trace' = r.trace
            /\ value' = None
            /\ repeat' = Repeats(c)

Init ==
    /\ fs \in FileSystems
    /\ pre = fs
    /\ call = NoCall
    /\ outcome = NotCalled
    /\ value = None
    /\ trace = <<>>
    /\ repeat = FALSE

Next == download_extract_zip

Spec == Init /\ [][Next]_vars

(***************************************************************************)
(* drop_impossible_values.  A dataframe is its column names, in order, and *)
(* its rows, in order, each row giving a value to every column.            *)
(* constraints maps column names to bound records, which may lack a key.   *)
(***************************************************************************)
Columns == {"age", "score"}

Values == {17, 18, 60, 61}

BoundValues == {18, 60}

Rows(cols) == [cols -> Values]

\* the dataframes with columns cs and n rows
Dataframes(cs, n) ==
    {[columns |-> cs, rows |-> rs] : rs \in [1..n -> Rows(Range(cs))]}

\* a dataframe without columns has no rows
MaxRowsOf(cs) == IF cs = <<>> THEN 0 ELSE MaxRows

BoundRecords == UNION {[ks -> BoundValues] : ks \in SUBSET {"min", "max"}}

Constraints == UNION {[cs -> BoundRecords] : cs \in SUBSET Columns}

\* variant: both bounds exclusive
between_exclusive(v, left, right) == left < v /\ v < right

\* Series.between(left, right), inclusive="both"
between(v, left, right) == left <= v /\ v <= right

\* variant: a column whose bound record lacks a key is not filtered
RECURSIVE filter_columns_lenient(_, _, _)
filter_columns_lenient(dataframe, constraints, i) ==
    IF i > Len(dataframe.columns)
    THEN [outcome |-> Returned, value |-> dataframe]
    ELSE LET col == dataframe.columns[i]
         IN  IF col \notin DOMAIN constraints
                \/ "min" \notin DOMAIN constraints[col]
                \/ "max" \notin DOMAIN constraints[col]
             THEN filter_columns_lenient(dataframe, constraints, i + 1)
             ELSE filter_columns_lenient(
                    [dataframe EXCEPT !.rows =
                        SelectSeq(@, LAMBDA r :
                            between(r[col], constraints[col]["min"],
                                    constraints[col]["max"]))],
                    constraints, i + 1)

\* the loop over dataframe.columns, from column i on
RECURSIVE filter_columns(_, _, _)
filter_columns(dataframe, constraints, i) ==
    IF i > Len(dataframe.columns)
    THEN [outcome |-> Returned, value |-> dataframe]
    ELSE LET col == dataframe.columns[i]
         IN  IF col \notin DOMAIN constraints
             THEN filter_columns(dataframe, constraints, i + 1)
             ELSE IF "min" \notin DOMAIN constraints[col]
             THEN [outcome |-> Raised("KeyError", "min", None), value |-> None]
             ELSE IF "max" \notin DOMAIN constraints[col]
             THEN [outcome |-> Raised("KeyError", "max", None), value |-> None]
             ELSE filter_columns(
                    [dataframe EXCEPT !.rows =
                        SelectSeq(@, LAMBDA r :
                            between(r[col], constraints[col]["min"],
                                    constraints[col]["max"]))],
                    constraints, i + 1)

FilterCall(d, c) ==
    [op |-> "drop_impossible_values", dataframe |-> d, constraints |-> c]

drop_impossible_values ==
    /\ call.op = "drop_impossible_values"
    /\ outcome = Pending
    /\ LET r == filter_columns(call.dataframe, call.constraints, 1)
       IN  /\ outcome' = r.outcome
           /\ value' = r.value
    /\ trace' = <<>>
    /\ UNCHANGED <<fs, pre, call, repeat>>

(***************************************************************************)
(* plot_classifier_results.  Of the classifier argument the model keeps    *)
(* what sklearn's is_classifier reads, and whether it has been fitted.     *)
(***************************************************************************)
EstimatorTypes == {"classifier", "regressor", "clusterer", None}

Estimators == [estimator_type : EstimatorTypes, fitted : BOOLEAN]

\* variant: any estimator with a type passes
is_classifier_any(estimator) == estimator.estimator_type # None

\* sklearn.base.is_classifier
is_classifier(estimator) == estimator.estimator_type = "classifier"

run_plot_classifier_results(classifier) ==
    IF ~is_classifier(classifier)
    THEN [outcome |-> Raised("ValueError", "is not a classifier", None),
          trace |-> <<>>]
    ELSE IF ~classifier.fitted
    THEN [outcome |-> Raised("NotFittedError", None, None),
          trace |-> <<"plt.subplots", "plot_confusion_matrix">>]
    ELSE [outcome |-> Returned,
          trace |-> <<"plt.subplots", "plot_confusion_matrix",
                      "plot_precision_recall_curve", "plot_roc_curve",
                      "plt.show">>]

PlotCalls ==
    {[op |-> "plot_classifier_results", classifier |-> e] : e \in Estimators}

plot_classifier_results ==
    /\ call.op = "plot_classifier_results"
    /\ outcome = Pending
    /\ LET r == run_plot_classifier_results(call.classifier)
       IN  /\ outcome' = r.outcome
           /\ trace' = r.trace
    /\ value' = None
    /\ UNCHANGED <<fs, pre, call, repeat>>

\* the functions working on their arguments alone: the argument is drawn
\* first, the call then made
InitLeaf ==
    /\ fs = [parent |-> FALSE, target |-> "absent", files |-> EmptyFiles]
    /\ pre = fs
    /\ \/ \E cs \in DistinctSeqs(Columns), c \in Constraints :
            \E n \in 0..MaxRowsOf(cs) :
                \E d \in Dataframes(cs, n) : call = FilterCall(d, c)
       \/ call \in PlotCalls
    /\ outcome = Pending
    /\ value = None
    /\ trace = <<>>
    /\ repeat = FALSE

NextLeaf == drop_impossible_values \/ plot_classifier_results

SpecLeaf == InitLeaf /\ [][NextLeaf]_vars

(***************************************************************************)
(* Properties of download_extract_zip.                                     *)
(***************************************************************************)
IsFetch == call.op = "download_extract_zip"

\* file n is a file under target_path in filesystem f
Present(f, n) == f.target = "dir" /\ n \in DOMAIN f.files

AllPresent(f, names) == \A i \in 1..Len(names) : Present(f, names[i])

Count(t, e) == Cardinality({i \in 1..Len(t) : t[i] = e})

Answered == call.resp # NoResponse

ValidArchive ==
    /\ call.resp.status = 200
    /\ call.resp.body.kind = "zip"
    /\ call.resp.body.corrupt = {}

\* C1: a call made when every file of files_names exists under target_path
\* returns, makes no network request and leaves the filesystem as it was.
C1_ShortCircuit ==
    (IsFetch /\ AllPresent(pre, call.files_names))
        => (outcome = Returned /\ trace = <<>> /\ fs = pre)

C1_Witness ==
    /\ IsFetch
    /\ Len(call.files_names) = 2
    /\ AllPresent(pre, call.files_names)
    /\ ValidArchive
    /\ outcome = Returned

\* C2: after a call that returned, every file of files_names exists under
\* target_path.
C2_AllExpectedPresent ==
    (IsFetch /\ outcome = Returned) => AllPresent(fs, call.files_names)

\* C3: a file is missing and the server answers with a status other than 200:
\* the call raises the ValueError naming the URL, creates no directory and
\* extracts nothing.
C3_FetchError ==
    (IsFetch /\ ~AllPresent(pre, call.files_names)
        /\ Answered /\ call.resp.status # 200)
        => /\ outcome = Raised("ValueError", "Failed to download", zip_file_url)
           /\ Count(trace, "makedirs") = 0
           /\ Count(trace, "extractall") = 0
           /\ fs = pre

C3_Witness ==
    /\ IsFetch
    /\ pre.target = "absent"
    /\ call.files_names # <<>>
    /\ call.resp.status = 404
    /\ outcome.kind = "ValueError"
    /\ fs.target = "absent"

\* C4: a file is missing and the body fetched is no archive, or is an archive
\* failing its integrity check: in both cases the call raises the same error,
\* the ValueError naming the URL, creates no directory and extracts nothing.
C4_CorruptionError ==
    (IsFetch /\ ~AllPresent(pre, call.files_names)
        /\ call.resp.status = 200
        /\ (call.resp.body.kind = "notzip" \/ call.resp.body.corrupt # {}))
        => /\ outcome = Raised("ValueError", "Failed to extract", zip_file_url)
           /\ Count(trace, "makedirs") = 0
           /\ Count(trace, "extractall") = 0
           /\ fs = pre

\* C5: a file is missing, the fetch succeeds, the archive passes its check and
\* the call returns: target_path is a directory, its parent exists, and every
\* member of the archive is a file under target_path with the member's
\* contents, whatever was there before.
C5_Extracted ==
    (IsFetch /\ ~AllPresent(pre, call.files_names)
        /\ ValidArchive /\ outcome = Returned)
        => /\ fs.target = "dir"
           /\ fs.parent
           /\ \A n \in DOMAIN call.resp.body.members :
                Present(fs, n) /\ fs.files[n] = call.resp.body.members[n]

\* C9: requests.get is called exactly once when a file is missing and not at
\* all otherwise; makedirs and extractall happen only after it, and only when
\* the status is 200 and the archive has passed its check.
C9_SingleFetch ==
    IsFetch =>
        /\ Count(trace, "requests.get")
             = (IF AllPresent(pre, call.files_names) THEN 0 ELSE 1)
        /\ \A i \in 1..Len(trace) :
             trace[i] \in {"makedirs", "extractall"}
                => /\ i > 1
                   /\ trace[1] = "requests.get"
                   /\ Answered
                   /\ ValidArchive
        /\ (fs # pre => Count(trace, "makedirs") + Count(trace, "extractall") > 0)

C9_Witness ==
    /\ IsFetch
    /\ pre.target = "absent"
    /\ trace = <<"requests.get", "makedirs", "extractall">>
    /\ outcome = Returned

\* C10: when a call has downloaded and returned and its archive held every
\* name of files_names, the next call with the same arguments makes no
\* network request and leaves the filesystem as the first call left it.
C10_Idempotent ==
    [][(/\ IsFetch
        /\ outcome = Returned
        /\ Count(trace, "requests.get") > 0
        /\ Range(call.files_names) \subseteq DOMAIN call.resp.body.members
        /\ call'.op = "download_extract_zip"
        /\ call'.files_names = call.files_names)
            => (outcome' = Returned /\ trace' = <<>> /\ fs' = fs)]_vars

C10_Witness ==
    /\ IsFetch
    /\ repeat
    /\ Len(call.files_names) = 2
    /\ call.resp.status = 200

(***************************************************************************)
(* Properties of drop_impossible_values.                                   *)
(***************************************************************************)
IsFilter == call.op = "drop_impossible_values"

\* the columns of the table that the constraint mapping names
Constrained == Range(call.dataframe.columns) \cap DOMAIN call.constraints

Complete(b) == {"min", "max"} \subseteq DOMAIN b

InBounds(r) ==
    \A c \in Constrained :
        call.constraints[c]["min"] <= r[c] /\ r[c] <= call.constraints[c]["max"]

\* C6: a call that returns gives back the columns of its input and exactly the
\* rows in which every constrained column has min <= v <= max, in their order;
\* with no constrained column it gives back every row.
C6_RangeFilter ==
    (IsFilter /\ outcome = Returned)
        => /\ value.columns = call.dataframe.columns
           /\ value.rows = SelectSeq(call.dataframe.rows, InBounds)
           /\ (Constrained = {} => value.rows = call.dataframe.rows)

C6_Witness ==
    /\ IsFilter
    /\ outcome = Returned
    /\ call.dataframe.columns = <<"age", "score">>
    /\ DOMAIN call.constraints = {"age"}
    /\ call.constraints["age"] = [min |-> 18, max |-> 60]
    /\ call.dataframe.rows = <<[age |-> 18, score |-> 61], [age |-> 61, score |-> 18]>>
    /\ value.rows = <<[age |-> 18, score |-> 61]>>

\* C8 as stated: whenever the constraint mapping has an entry whose bound
\* record lacks 'min' or 'max', the call raises KeyError and returns nothing.
C8_MissingKeyAnyEntry ==
    (IsFilter /\ outcome # Pending
        /\ \E c \in DOMAIN call.constraints : ~Complete(call.constraints[c]))
        => (outcome.kind = "KeyError" /\ value = None)

\* C8 amended: whenever the constraint mapping has an entry for a column of
\* the table whose bound record lacks 'min' or 'max', the call raises KeyError
\* and returns nothing.
C8_MissingKeyTableColumn ==
    (IsFilter /\ outcome # Pending
        /\ \E c \in Constrained : ~Complete(call.constraints[c]))
        => (outcome.kind = "KeyError" /\ value = None)

C8_Witness ==
    /\ IsFilter
    /\ outcome = Raised("KeyError", "max", None)
    /\ call.dataframe.columns = <<"score", "age">>
    /\ Len(call.dataframe.rows) = 0
    /\ DOMAIN call.constraints = {"age"}
    /\ DOMAIN call.constraints["age"] = {"min"}

(***************************************************************************)
(* Properties of plot_classifier_results.                                  *)
(***************************************************************************)
\* C7: called with an object that is not a classifier, the call raises the
\* ValueError and has created no figure, computed no metric and plotted
\* nothing.
C7_ClassifierGuard ==
    (call.op = "plot_classifier_results" /\ outcome # Pending
        /\ call.classifier.estimator_type # "classifier")
        => (outcome = Raised("ValueError", "is not a classifier", None)
            /\ trace = <<>>)

C7_Witness ==
    /\ call.op = "plot_classifier_results"
    /\ call.classifier = [estimator_type |-> "regressor", fitted |-> TRUE]
    /\ outcome.kind = "ValueError"

============================================================================
